---- MODULE Spec2Model ----
(***************************************************************************)
(* A model of qiskit/aqua/algorithms/single_sample/hhl/hhl.py: the HHL     *)
(* object (input validation, construction, circuit assembly), one run with *)
(* its two extraction paths, and the post-selection filter of the          *)
(* tomography path.                                                        *)
(*                                                                         *)
(* Strings are sequences of one-character strings, so that Python's        *)
(* indexing and slicing can be modelled position by position.  A dict is a *)
(* function on its key set; an insertion-ordered dict that is iterated is  *)
(* a sequence of <<key, value>> pairs with distinct keys.                  *)
(***************************************************************************)
EXTENDS Integers, Sequences, FiniteSets, TLC

\* ------------------------------------------------------------------ bounds
MaxQ == 2          \* system-register sizes tried for the filter's inputs
MaxEntries == 2    \* entries of one raw counts mapping
MaxCount == 1      \* largest count of one bitstring
MaxRows == 3       \* matrix rows / vector lengths tried
MaxA == 1          \* eigenvalue-register sizes tried (reciprocal: one more)
MaxOps == 2        \* public calls (construct_circuit, run) on one object
Den == 2           \* denominator of the probabilities and density-matrix entries

\* --------------------------------------------------------- program constants
SuccessRegSize == 1   \* c = ClassicalRegister(1) in construct_circuit

VARIABLES
    fPhase,      \* filter harness: "off", "input" or "done"
    fIn,         \* filter harness: [n, all_counts], the counts of the first variant
    fOut,        \* filter harness: the data list _tomo_postselect built
    pc,          \* position of the caller / of _run
    validation,  \* outcome of the last init_params call
    obj,         \* the HHL object's fields set once by __init__, or None
    circuit,     \* self._circuit (with the registers construct_circuit stores)
    success_bit, \* self._success_bit
    ret,         \* the contents of the dict self._ret
    returned,    \* the contents of self._ret when the first completed run returned it
    run,         \* the locals of the run in progress
    ops          \* number of public calls made on the object

vars == <<fPhase, fIn, fOut, pc, validation, obj, circuit, success_bit, ret,
          returned, run, ops>>

filterVars == <<fPhase, fIn, fOut>>
progVars == <<pc, validation, obj, circuit, success_bit, ret, returned, run, ops>>

\* ------------------------------------------------------------ Python helpers
Bits == {"0", "1"}

BitStrings(n) == [1..n -> Bits]

SetMax(S) == CHOOSE x \in S : \A y \in S : y <= x

\* k[i] with Python's negative indices
PyIndex(k, i) == IF i < 0 THEN k[Len(k) + i + 1] ELSE k[i + 1]

\* k[:e] with Python's negative and out-of-range stops
PySliceTo(k, e) ==
    LET n == Len(k)
        stop == IF e < 0 THEN (IF n + e < 0 THEN 0 ELSE n + e)
                         ELSE (IF e > n THEN n ELSE e)
    IN SubSeq(k, 1, stop)

RECURSIVE SetSum(_, _)
SetSum(S, f) ==
    IF S = {} THEN 0
    ELSE LET x == CHOOSE y \in S : TRUE IN f[x] + SetSum(S \ {x}, f)

\* sum(d.values())
SumValues(d) == SetSum(DOMAIN d, d)

RECURSIVE SeqSum(_)
SeqSum(s) == IF s = <<>> THEN 0 ELSE Head(s)[2] + SeqSum(Tail(s))

\* dict(zip(keys, vals)): a later pair with the same key overwrites an earlier one
DictZip(keys, vals) ==
    [k \in {keys[i] : i \in 1..Len(keys)} |->
        vals[SetMax({i \in 1..Len(keys) : keys[i] = k})]]

\* d[k] = v
DictSet(d, k, v) == (k :> v) @@ d

\* ------------------------------------------------- measurement result layout
\* A classical register is [name, size].  The names "c<k>" come from a global
\* instance counter, so each register has a name of its own: the two registers
\* one public call can create are numbered after the call.
CReg(k, size) == [name |-> <<"c", k>>, size |-> size]

\* results.results[j].header.clbit_labels: one [register name, index] per bit,
\* registers in the order they were added to the circuit.
RECURSIVE ClbitLabels(_)
ClbitLabels(cregs) ==
    IF cregs = <<>> THEN <<>>
    ELSE [i \in 1..Head(cregs).size |-> <<Head(cregs).name, i - 1>>]
         \o ClbitLabels(Tail(cregs))

\* A measured bitstring: the register added last is leftmost, registers are
\* separated by a space.
RawKey(sys, succ) == sys \o <<" ">> \o succ

\* --------------------------------------------------- _tomo_postselect (body)
\* lines 266-269: the last label of the select register gives the position
\* (found = FALSE stands for the initial None)
SelectBitpos(labels, selName) ==
    LET hits == {i \in 1..Len(labels) : labels[i][1] = selName}
    IN IF hits = {} THEN [found |-> FALSE, pos |-> 0]
       ELSE [found |-> TRUE, pos |-> labels[SetMax(hits)][2]]

\* line 274, a shifted test
KeepPairShifted(k, select_bitpos) == PyIndex(k, -2 - select_bitpos) = "1"

\* line 274: int(k[-1-select_bitpos]) == 1
KeepPair(k, select_bitpos) == PyIndex(k, -1 - select_bitpos) = "1"

\* line 275, a slice that is one character short
FiltKeyShort(k, select_bitpos) == PySliceTo(k, select_bitpos - 3)

\* line 275: k[:select_bitpos-2]
FiltKey(k, select_bitpos) == PySliceTo(k, select_bitpos - 2)

\* lines 271-276: the pairs kept, in iteration order
KeptPairs(all_counts, select_bitpos) ==
    SelectSeq(all_counts, LAMBDA e : KeepPair(e[1], select_bitpos))

\* lines 278-279 without the placeholder
FiltLabelsNoPlaceholder(filt_keys, filt_counts) == DictZip(filt_keys, filt_counts)

\* lines 277-279
FiltLabels(filt_keys, filt_counts) ==
    LET filt_labels == DictZip(filt_keys, filt_counts)
    IN IF DOMAIN filt_labels = {} THEN (<<"0">> :> 0) ELSE filt_labels

\* tomo.marginal_counts(counts, qubits) with qubits = 0..nq-1: every bitstring
\* over the target qubits gets the summed counts of the keys that agree with it
\* on those qubits (qubit q is the q-th character from the right).
MarginalCounts(counts, nq) ==
    LET Agrees(k, m) ==
            \A q \in 0..(nq - 1) : q < Len(k) => PyIndex(k, -1 - q) = PyIndex(m, -1 - q)
    IN [m \in BitStrings(nq) |->
            SetSum({k \in DOMAIN counts : Agrees(k, m)}, counts)]

\* lines 266-281 and 295: one iteration of the loop over the basis variants
PostselectVariant(all_counts, labels, selName, nq) ==
    LET sel == SelectBitpos(labels, selName)
        select_bitpos == sel.pos
    IN IF ~sel.found /\ all_counts # <<>>
       THEN [error |-> "TypeError"]
       ELSE LET kept == KeptPairs(all_counts, select_bitpos)
                filt_keys == [i \in 1..Len(kept) |-> FiltKey(kept[i][1], select_bitpos)]
                filt_counts == [i \in 1..Len(kept) |-> kept[i][2]]
                filt_labels == FiltLabels(filt_keys, filt_counts)
                counts == MarginalCounts(filt_labels, nq)
            IN [error |-> "",
                select_bitpos |-> select_bitpos,
                raw_kept |-> [i \in 1..Len(kept) |-> kept[i][1]],
                filt_keys |-> filt_keys,
                filt_labels |-> filt_labels,
                counts |-> counts,
                shots |-> SumValues(counts)]

\* lines 263-296: data, one entry per label
TomoPostselect(batch, labels, selName, nq) ==
    [j \in 1..Len(batch) |-> PostselectVariant(batch[j], labels, selName, nq)]

\* ------------------------------------------------------ the filter's inputs
RawKeys(n) == {RawKey(s, b) : s \in BitStrings(n), b \in BitStrings(SuccessRegSize)}

\* insertion-ordered counts mappings: distinct keys, positive counts
RawCounts(n) ==
    UNION {{c \in [1..len -> RawKeys(n) \X (1..MaxCount)] :
                \A i, j \in 1..len : i # j => c[i][1] # c[j][1]}
           : len \in 0..MaxEntries}

\* the registers of a tomography circuit: the success register, added by
\* construct_circuit, then the register _state_tomography adds
TomoCRegs(k, nq) == <<CReg(k, SuccessRegSize), CReg(k + 1, nq)>>

\* a second variant of the batch, in which every shot succeeded
Companion(n) == <<<<RawKey([i \in 1..n |-> "0"], [i \in 1..SuccessRegSize |-> "1"]), 1>>>>

FilterInit ==
    /\ fPhase = "input"
    /\ fIn \in UNION {{[n |-> n, all_counts |-> c] : c \in RawCounts(n)} : n \in 1..MaxQ}
    /\ fOut = <<>>

\* _tomo_postselect applied to a batch of two variants: the drawn counts and
\* the companion
Postselect ==
    /\ fPhase = "input"
    /\ fPhase' = "done"
    /\ fOut' = TomoPostselect(<<fIn.all_counts, Companion(fIn.n)>>,
                              ClbitLabels(TomoCRegs(0, fIn.n)),
                              CReg(0, SuccessRegSize).name, fIn.n)
    /\ UNCHANGED <<fIn>>

\* ------------------------------------------------------------ init_params
RECURSIVE FloorLog2(_)
FloorLog2(r) == IF r <= 1 THEN 0 ELSE 1 + FloorLog2(r \div 2)

\* np.log2(r) % 1 == 0
Log2IsWhole(r) == 2 ^ FloorLog2(r) = r

\* lines 135-141 without the second test
CheckDimensionsNoPow2(rows, veclen) ==
    IF rows # veclen THEN "ValueError: vector dimension does not match"
    ELSE "ok"

\* lines 135-141: the two tests, in the order of the code
CheckDimensions(rows, veclen) ==
    IF rows # veclen THEN "ValueError: vector dimension does not match"
    ELSE IF ~Log2IsWhole(rows) THEN "ValueError: matrix dimension must be 2**n"
    ELSE "ok"

NoValidation == [called |-> FALSE, given |-> FALSE, rows |-> 0, veclen |-> 0,
                 outcome |-> ""]

\* ---------------------------------------------------------------- __init__
\* lines 103-115; eigs_out and recip_in are the register sizes of the two
\* collaborators: what the eigenvalue estimator's output register holds and
\* what the reciprocal is configured for.
NewObject(rows, veclen, num_q, eigs_out, recip_in, via) ==
    [rows |-> rows, veclen |-> veclen, num_q |-> num_q, num_a |-> eigs_out,
     eigs_out |-> eigs_out, recip_in |-> recip_in, via |-> via]

NoObject == NewObject(0, 0, 0, 0, 0, "")
NoCircuit == [built |-> FALSE]
NoReg == [name |-> <<"", 0>>, size |-> 0]

\* ------------------------------------------------------- construct_circuit
\* lines 176-206.  QuantumRegister(0) is rejected by the register class; apart
\* from that every stage returns its fragment, and no size is compared.
Assemble(o, measurement, k) ==
    IF o.num_q <= 0
    THEN [error |-> "QiskitError", circuit |-> NoCircuit, success_bit |-> NoReg]
    ELSE [error |-> "",
          circuit |-> [built |-> TRUE,
                       io |-> o.num_q,
                       eigenvalue |-> o.eigs_out,
                       ancilla |-> 1,
                       stages |-> <<"init_state", "eigs", "reciprocal", "eigs_inverse">>
                                  \o (IF measurement THEN <<"measure">> ELSE <<>>),
                       measurement |-> measurement,
                       for_rows |-> o.rows,
                       for_veclen |-> o.veclen,
                       cregs |-> IF measurement THEN <<CReg(k, SuccessRegSize)>> ELSE <<>>],
          success_bit |-> IF measurement THEN CReg(k, SuccessRegSize) ELSE NoReg]

\* ------------------------------------------------------------------ numbers
RECURSIVE Gcd(_, _)
Gcd(a, b) == IF b = 0 THEN a ELSE Gcd(b, a % b)

\* the fraction a/b in lowest terms (b > 0)
Frac(a, b) == LET g == Gcd(a, b) IN IF g = 0 THEN <<0, 1>> ELSE <<a \div g, b \div g>>

\* A complex vector is kept as its length, whether its entries are finite, and
\* its squared norm.
Vec(len, finite, nsq) == [len |-> len, finite |-> finite, nsq |-> nsq]
NoVec == Vec(0, FALSE, <<0, 1>>)

\* the locals of a run: the flag read at line 315, the calls made so far (each
\* extraction step tagged with the path it belongs to: FALSE statevector, TRUE
\* tomography), the number of backend execute calls, rho_fit[0,0], the vector
\* handed to _hhl_results, the number of entries of tomo_data, the exception
NoRun == [active |-> FALSE, is_statevector |-> FALSE, steps |-> <<>>, executes |-> 0,
          vec |-> NoVec, rho00 |-> <<1, 1>>, data_len |-> 0, error |-> ""]

\* vec/np.linalg.norm(vec): 0/0 gives nan entries and a warning, no exception
Normalized(v) ==
    IF ~v.finite \/ v.nsq[1] = 0 THEN Vec(v.len, FALSE, <<0, 1>>)
    ELSE Vec(v.len, TRUE, Frac(v.nsq[1] * v.nsq[2], v.nsq[2] * v.nsq[1]))

\* rho_fit[:, 0]/np.sqrt(rho_fit[0, 0]) for rho_fit[0,0] = a/Den and
\* sum_{i>0} |rho_fit[i,0]|^2 = c/Den^2: the squared norm is (a^2 + c)/(a*Den);
\* a = 0 gives nan and inf entries and a warning, no exception
FirstColumnScaled(len, a, c) ==
    IF a = 0 THEN Vec(len, FALSE, <<0, 1>>)
    ELSE Vec(len, TRUE, Frac(a * a + c, a * Den))

\* the fitted density matrices tried: trace 1, positive semidefinite
RhoFits == {[a |-> a, c |-> c] : a \in 0..Den, c \in 0..(Den * Den)}
RhoFitsPSD == {r \in RhoFits : r.c <= r.a * (Den - r.a)}

\* --------------------------------------------------------- backend results
Zeros(n) == [i \in 1..n |-> "0"]
Ones(n) == [i \in 1..n |-> "1"]

\* counts of one tomography circuit, as the backend may return them
RunCounts(n) ==
    { <<<<RawKey(Zeros(n), <<"1">>), 1>>>>,
      <<<<RawKey(Zeros(n), <<"0">>), 1>>>>,
      <<<<RawKey(Ones(n), <<"1">>), 1>>, <<RawKey(Zeros(n), <<"0">>), 1>>>> }

\* tomo.state_tomography_set: one circuit per Pauli measurement basis
NumTomoCircuits(n) == 3 ^ n

Batches(n) == {[j \in 1..NumTomoCircuits(n) |-> c] : c \in RunCounts(n)}

\* lines 243-249: s/(f+s) of one circuit's counts
SuccessFraction(counts) ==
    LET s == SeqSum(SelectSeq(counts, LAMBDA e : PyIndex(e[1], -1) = "1"))
        f == SeqSum(SelectSeq(counts, LAMBDA e : PyIndex(e[1], -1) # "1"))
    IN [defined |-> f + s # 0, value |-> Frac(s, f + s)]

\* --------------------------------------------------------------------- Init
Init ==
    /\ fPhase = "off"
    /\ fIn = [n |-> 0, all_counts |-> <<>>]
    /\ fOut = <<>>
    /\ pc = "start"
    /\ validation = NoValidation
    /\ obj = NoObject
    /\ circuit = NoCircuit
    /\ success_bit = NoReg
    /\ ret = <<>>
    /\ returned = <<>>
    /\ run = NoRun
    /\ ops = 0

\* ------------------------------------------------------------------ actions
\* HHL.init_params(params, algo_input), lines 125-163
InitParams ==
    /\ pc = "start"
    /\ \E given \in BOOLEAN, rows \in 1..MaxRows, veclen \in 1..MaxRows,
          eigs_out \in 1..MaxA, recip_in \in 1..(MaxA + 1) :
        IF ~given
        THEN /\ rows = 1 /\ veclen = 1 /\ eigs_out = 1 /\ recip_in = 1
             /\ validation' = [called |-> TRUE, given |-> FALSE, rows |-> 0,
                               veclen |-> 0, outcome |-> "AquaError"]
             /\ pc' = "raised"
             /\ UNCHANGED obj
        ELSE LET outcome == CheckDimensions(rows, veclen) IN
             /\ validation' = [called |-> TRUE, given |-> TRUE, rows |-> rows,
                               veclen |-> veclen, outcome |-> outcome]
             /\ IF outcome = "ok"
                THEN /\ obj' = NewObject(rows, veclen, FloorLog2(rows), eigs_out,
                                         recip_in, "init_params")
                     /\ pc' = "idle"
                ELSE /\ eigs_out = 1 /\ recip_in = 1
                     /\ pc' = "raised"
                     /\ UNCHANGED obj
    /\ UNCHANGED <<circuit, success_bit, ret, returned, run, ops>>
    /\ UNCHANGED filterVars

\* HHL(matrix, vector, eigs, init_state, reciprocal, num_q, num_a), lines 101-115:
\* validate(locals()) checks the empty input_schema, nothing about the sizes
Constructor ==
    /\ pc = "start"
    /\ \E rows \in 1..MaxRows, veclen \in 1..MaxRows, num_q \in 1..MaxQ,
          eigs_out \in 1..MaxA, recip_in \in 1..(MaxA + 1) :
        obj' = NewObject(rows, veclen, num_q, eigs_out, recip_in, "constructor")
    /\ pc' = "idle"
    /\ UNCHANGED <<validation, circuit, success_bit, ret, returned, run, ops>>
    /\ UNCHANGED filterVars

\* a call of construct_circuit(measurement) by the user
ConstructCircuit ==
    /\ pc = "idle"
    /\ ops < MaxOps
    /\ \E measurement \in BOOLEAN :
        LET r == Assemble(obj, measurement, 2 * ops) IN
        IF r.error # ""
        THEN /\ pc' = "error"
             /\ run' = [run EXCEPT !.error = r.error]
             /\ UNCHANGED <<circuit, success_bit>>
        ELSE /\ circuit' = r.circuit
             /\ success_bit' = IF measurement THEN r.success_bit ELSE success_bit
             /\ UNCHANGED <<pc, run>>
    /\ ops' = ops + 1
    /\ UNCHANGED <<validation, obj, ret, returned>>
    /\ UNCHANGED filterVars

\* lines 316/319 with the argument fixed
MeasurementAlways(is_statevector) == TRUE

\* lines 316/319: the measurement argument of the run's construct_circuit call
MeasurementFor(is_statevector) == ~is_statevector

\* _run, lines 315-316 and 318-319: the flag is read once, the circuit is built
RunBegin ==
    /\ pc = "idle"
    /\ ops < MaxOps
    /\ \E is_statevector \in BOOLEAN :
        LET measurement == MeasurementFor(is_statevector)
            r == Assemble(obj, measurement, 2 * ops)
            fresh == [NoRun EXCEPT !.active = TRUE,
                                   !.is_statevector = is_statevector,
                                   !.steps = <<<<"construct_circuit", measurement>>>>,
                                   !.error = r.error]
        IN
        IF r.error # ""
        THEN /\ pc' = "error"
             /\ run' = fresh
             /\ UNCHANGED <<circuit, success_bit>>
        ELSE /\ circuit' = r.circuit
             /\ success_bit' = IF measurement THEN r.success_bit ELSE success_bit
             /\ run' = fresh
             /\ pc' = IF is_statevector THEN "statevector" ELSE "tomography"
    /\ ops' = ops + 1
    /\ UNCHANGED <<validation, obj, ret, returned>>
    /\ UNCHANGED filterVars

\* _statevector_simulation, lines 215-220, up to the call of _hhl_results
StatevectorSimulation ==
    /\ pc = "statevector"
    /\ \E p \in 0..Den :
        LET vec == Vec(2 ^ obj.num_q, TRUE, Frac(p, Den)) IN
        /\ ret' = DictSet(ret, "probability_result", [float |-> vec.nsq])
        /\ run' = [run EXCEPT !.executes = @ + 1,
                              !.steps = @ \o <<<<"execute", FALSE>>,
                                               <<"sv_to_resvec", FALSE>>,
                                               <<"normalize", FALSE>>>>,
                              !.vec = Normalized(vec)]
    /\ pc' = "hhl_results"
    /\ UNCHANGED <<validation, obj, circuit, success_bit, returned, ops>>
    /\ UNCHANGED filterVars

\* _state_tomography, lines 230-256, up to the call of _hhl_results
StateTomography ==
    /\ pc = "tomography"
    /\ \E batch \in Batches(obj.num_q) :
        LET c == CReg(2 * ops - 1, obj.num_q)
            cregs == circuit.cregs \o <<c>>
            fractions == [j \in 1..Len(batch) |-> SuccessFraction(batch[j])]
            probs == [j \in 1..Len(batch) |-> fractions[j].value]
            tomo_data == TomoPostselect(batch, ClbitLabels(cregs), success_bit.name,
                                        obj.num_q)
            steps1 == run.steps \o <<<<"tomography_circuits", TRUE>>, <<"execute", TRUE>>>>
        IN
        /\ circuit' = [circuit EXCEPT !.cregs = cregs]
        /\ IF \E j \in 1..Len(batch) : ~fractions[j].defined
           THEN /\ pc' = "error"
                /\ run' = [run EXCEPT !.executes = @ + 1, !.steps = steps1,
                                      !.error = "ZeroDivisionError"]
                /\ UNCHANGED ret
           ELSE IF \E d \in {tomo_data[j] : j \in 1..Len(batch)} : d.error # ""
           THEN /\ pc' = "error"
                /\ ret' = DictSet(ret, "probability_result", [list |-> probs])
                /\ run' = [run EXCEPT !.executes = @ + 1, !.steps = steps1,
                                      !.error = "TypeError"]
           ELSE \E rho \in RhoFitsPSD :
                /\ pc' = "hhl_results"
                /\ ret' = DictSet(ret, "probability_result", [list |-> probs])
                /\ run' = [run EXCEPT !.executes = @ + 1,
                                      !.steps = steps1 \o <<<<"postselect", TRUE>>,
                                                            <<"fit", TRUE>>>>,
                                      !.rho00 = Frac(rho.a, Den),
                                      !.data_len = Len(tomo_data),
                                      !.vec = FirstColumnScaled(2 ^ obj.num_q, rho.a, rho.c)]
    /\ UNCHANGED <<validation, obj, success_bit, returned, ops>>
    /\ UNCHANGED filterVars

\* _hhl_results(vec), lines 302-311
HhlResults ==
    /\ pc = "hhl_results"
    /\ LET vec == run.vec
           ret1 == DictSet(ret, "output_hhl", vec)
       IN
       IF obj.veclen # obj.rows
       THEN \* np.linalg.solve: the right-hand side does not fit the matrix
            /\ ret' = ret1
            /\ pc' = "error"
            /\ run' = [run EXCEPT !.error = "ValueError: solve"]
       ELSE IF vec.len # obj.rows
       THEN \* theo.dot(vec.conj()): shapes not aligned
            /\ ret' = ret1
            /\ pc' = "error"
            /\ run' = [run EXCEPT !.error = "ValueError: dot"]
       ELSE /\ ret' = DictSet(DictSet(ret1, "fidelity_hhl_to_classical",
                                      [of |-> vec, finite |-> vec.finite]),
                              "solution_hhl", [of |-> vec, finite |-> vec.finite])
            /\ pc' = "finish"
            /\ run' = [run EXCEPT !.steps = @ \o <<<<"hhl_results", ~run.is_statevector>>>>]
    /\ UNCHANGED <<validation, obj, circuit, success_bit, returned, ops>>
    /\ UNCHANGED filterVars

\* _run, lines 323-331: the general information, then return self._ret
RunFinish ==
    /\ pc = "finish"
    /\ LET width == circuit.io + circuit.eigenvalue + circuit.ancilla
           general == [input_matrix |-> [rows |-> obj.rows],
                       input_vector |-> [len |-> obj.veclen],
                       eigenvalues_classical |-> [len |-> obj.rows],
                       solution_classical |-> [len |-> obj.rows],
                       circuit_width |-> [n |-> width],
                       circuit_depth |-> [stages |-> Len(circuit.stages)],
                       gate_count_total |-> [stages |-> Len(circuit.stages)]]
           full == general @@ ret
       IN /\ ret' = full
          /\ returned' = IF returned = <<>> THEN <<full>> ELSE returned
    /\ pc' = "idle"
    /\ run' = [run EXCEPT !.active = FALSE]
    /\ UNCHANGED <<validation, obj, circuit, success_bit, ops>>
    /\ UNCHANGED filterVars

Next ==
    \/ InitParams
    \/ Constructor
    \/ ConstructCircuit
    \/ RunBegin
    \/ StatevectorSimulation
    \/ StateTomography
    \/ HhlResults
    \/ RunFinish

Spec == Init /\ [][Next]_vars

\* ---------------------------------------------- the filter on drawn inputs
FilterStart ==
    /\ FilterInit
    /\ pc = "filter"
    /\ validation = NoValidation
    /\ obj = NoObject
    /\ circuit = NoCircuit
    /\ success_bit = NoReg
    /\ ret = <<>>
    /\ returned = <<>>
    /\ run = NoRun
    /\ ops = 0

NextFilter == Postselect /\ UNCHANGED progVars

SpecFilter == FilterStart /\ [][NextFilter]_vars

\* ================================================================= claims
IsPowerOfTwo(r) == \E n \in 0..r : 2 ^ n = r

ValueErrors == {"ValueError: vector dimension does not match",
                "ValueError: matrix dimension must be 2**n"}

\* C1: for a matrix with r rows and a vector of length m, the validation of
\* init_params succeeds if and only if m = r and r is a power of two; in every
\* other case it ends in a ValueError and no object is built.
C1_ValidationIff ==
    (validation.called /\ validation.given) =>
        /\ validation.outcome = "ok" <=>
              (validation.veclen = validation.rows /\ IsPowerOfTwo(validation.rows))
        /\ validation.outcome # "ok" => validation.outcome \in ValueErrors /\ pc = "raised"
        /\ validation.outcome = "ok" =>
              obj.rows = validation.rows /\ obj.veclen = validation.veclen

\* a matching vector with a matrix dimension that is no power of two was refused
C1_Witness ==
    /\ validation.called /\ validation.given
    /\ validation.rows = validation.veclen
    /\ ~IsPowerOfTwo(validation.rows)
    /\ validation.outcome = "ValueError: matrix dimension must be 2**n"

\* C2: no circuit is ever assembled for a linear system whose matrix dimension
\* is no power of two or whose vector length differs from it, whichever way
\* the object was built.
C2_NoCircuitForInvalidSystem ==
    circuit.built =>
        (IsPowerOfTwo(circuit.for_rows) /\ circuit.for_veclen = circuit.for_rows)

\* the raw keys of the first variant whose success bit (the last character) is b
AllSuccessBits(b) ==
    \A i \in 1..Len(fIn.all_counts) :
        fIn.all_counts[i][1][Len(fIn.all_counts[i][1])] = b

\* C3: when every raw bitstring has the success bit 1, the filtered,
\* marginalized counts sum to the sum of the raw counts: nothing is lost or
\* overwritten.
C3_TotalsPreserved ==
    (fPhase = "done" /\ AllSuccessBits("1")) =>
        /\ fOut[1].error = ""
        /\ fOut[1].shots = SeqSum(fIn.all_counts)
        /\ SumValues(fOut[1].counts) = SeqSum(fIn.all_counts)
        /\ fIn.all_counts # <<>> => SumValues(fOut[1].filt_labels) = SeqSum(fIn.all_counts)

\* two surviving bitstrings went through the filter
C3_Witness ==
    /\ fPhase = "done" /\ AllSuccessBits("1")
    /\ fIn.n = 2
    /\ Len(fIn.all_counts) = 2
    /\ fOut[1].shots = 2

\* C4: when every raw bitstring has the success bit 0 (the empty mapping
\* included), the filtered counts of the variant are exactly {"0": 0} and the
\* variant still has its entry in the data handed to the fit.
C4_PlaceholderKept ==
    (fPhase = "done" /\ AllSuccessBits("0")) =>
        /\ Len(fOut) = 2
        /\ fOut[1].error = ""
        /\ fOut[1].filt_labels = (<<"0">> :> 0)
        /\ fOut[1].shots = 0

\* a variant with two failed bitstrings went through the filter
C4_Witness ==
    /\ fPhase = "done" /\ AllSuccessBits("0")
    /\ Len(fIn.all_counts) = 2
    /\ fOut[1].filt_labels = (<<"0">> :> 0)
    /\ Len(fOut) = 2

\* C5: when the eigenvalue register the phase estimation produces has another
\* size than the reciprocal expects, construct_circuit returns no circuit.
C5_NoCircuitOnSizeMismatch ==
    circuit.built => obj.eigs_out = obj.recip_in

HasStep(name) == \E i \in 1..Len(run.steps) : run.steps[i][1] = name

\* C6: when rho_fit[0,0] is zero the run ends in an error: _hhl_results never
\* completes on a vector obtained from that division, so none of output_hhl,
\* fidelity_hhl_to_classical and solution_hhl is written from it.
C6_ZeroEntryRaises ==
    (HasStep("fit") /\ run.rho00[1] = 0) => ~HasStep("hhl_results")

\* C7: the record a completed run returned is never changed afterwards.  The
\* run returns the dict self._ret itself (line 331), which __init__ creates once
\* (line 115), so the record the first run returned is the dict whose contents
\* are ret.
C7_ReturnedRecordFrozen ==
    \A i \in 1..Len(returned) :
        /\ DOMAIN returned[i] = DOMAIN ret
        /\ \A k \in DOMAIN ret : returned[i][k] = ret[k]

RunCompleted == ~run.active /\ run.steps # <<>> /\ run.error = ""

\* C8: in every run exactly one extraction path executes, the one the flag
\* is_statevector read at the start selects: the circuit is assembled without
\* measurement for the statevector path and with it for tomography, no step of
\* the other path occurs, and the backend is executed exactly once.
C8_OnePathOneExecute ==
    run.steps # <<>> =>
        /\ run.steps[1] = <<"construct_circuit", ~run.is_statevector>>
        /\ \A i \in 2..Len(run.steps) : run.steps[i][2] = ~run.is_statevector
        /\ pc = "statevector" => run.is_statevector /\ ~circuit.measurement
        /\ pc = "tomography" => ~run.is_statevector /\ circuit.measurement
        /\ run.executes <= 1
        /\ (pc \in {"hhl_results", "finish"} \/ RunCompleted) =>
              /\ run.executes = 1
              /\ Cardinality({i \in 1..Len(run.steps) : run.steps[i][1] = "execute"}) = 1
              /\ HasStep("sv_to_resvec") = run.is_statevector
              /\ HasStep("fit") = ~run.is_statevector

\* a tomography run has completed and returned its record
C8_Witness ==
    /\ RunCompleted
    /\ ~run.is_statevector
    /\ HasStep("fit")
    /\ run.executes = 1
    /\ Len(returned) >= 1

\* C9: on both paths the vector handed to _hhl_results has unit norm.
C9_UnitNormAtResults ==
    (pc = "hhl_results" /\ run.vec.finite) => run.vec.nsq = <<1, 1>>

====
